---- MODULE Spec2Model ----
(***************************************************************************)
(* FireCrawlLoader (document_loaders/firecrawl.py): the option normalizers *)
(* _prepare_crawler_options and _prepare_scrape_options, and lazy_load's   *)
(* remote call and projection of the response records to documents.        *)
(* DallEAPIWrapper.run (utilities/dalle_image_generator.py): its source is *)
(* not among the files at hand, it is modelled from spec.md and from its   *)
(* unit tests (tests/unit_tests/utilities/test_dalle_image_generator.py).  *)
(***************************************************************************)
EXTENDS Integers, Sequences, FiniteSets, TLC

VARIABLES
    url,            \* self.url
    mode,           \* self.mode
    params,         \* self.params: the dict the loader holds (caller-supplied)
    given,          \* content of the caller's dict, nested dicts included, at construction
    remote,         \* what the Firecrawl client returns when called (the collaborator)
    prepared,       \* invocations of the normalizers by the last lazy_load: fn, arg, ret
    called,         \* remote calls issued by the last lazy_load: op, kwargs
    firecrawl_docs, \* the local firecrawl_docs of the last lazy_load
    docs,           \* the Documents the last lazy_load yielded, in order
    raised,         \* the exception the last lazy_load raised, or "none"
    loaded,         \* TRUE once a lazy_load has been consumed
    wrapper,        \* DallEAPIWrapper fields: model_name, quality, n, separator
    generated,      \* the images.generate calls of the last run: kwargs, reply urls
    result          \* what the last run returned

vars == <<url, mode, params, given, remote, prepared, called, firecrawl_docs,
          docs, raised, loaded, wrapper, generated, result>>

loaderVars == <<url, mode, params, given, remote, prepared, called,
                firecrawl_docs, docs, raised, loaded>>
wrapperVars == <<wrapper, generated, result>>

---------------------------------------------------------------------------
(* Bounds of the model.                                                    *)
MaxKeys == 2        \* keys of a generated top-level params dict
MaxPageKeys == 1    \* keys of a generated nested pageOptions dict
MaxRecs == 2        \* records in a collaborator response
MaxN == 3           \* images requested from the generation wrapper
MaxUrls == 2        \* urls in a mocked generation response

---------------------------------------------------------------------------
(* Python values.  Every value is a tuple whose first element is its type. *)
PyNone == <<"none">>
PyBool(b) == <<"bool", b>>
PyStr(s) == <<"str", s>>
PyList(l) == <<"list", l>>
PyDict(d) == <<"dict", d>>

EmptyDict == [k \in {} |-> PyNone]

\* Python truth value of v (bool(v)): None, False, "", [] and {} are false.
Truthy(v) ==
    CASE v[1] = "none" -> FALSE
      [] v[1] = "bool" -> v[2]
      [] v[1] = "str"  -> v[2] # ""
      [] v[1] = "list" -> v[2] # << >>
      [] v[1] = "dict" -> DOMAIN v[2] # {}

\* a or b
PyOr(a, b) == IF Truthy(a) THEN a ELSE b

\* k in d
Has(d, k) == k \in DOMAIN d

\* d after d.pop(k) (d after d.pop(k, default) as well)
Pop(d, k) == [x \in DOMAIN d \ {k} |-> d[x]]

\* the value d.pop(k, default) returns
PopValue(d, k, default) == IF Has(d, k) THEN d[k] ELSE default

\* d after d[k] = v
Put(d, k, v) == [x \in DOMAIN d \cup {k} |-> IF x = k THEN v ELSE d[x]]

\* d after: if old in d: d[new] = d.pop(old)
Rename(d, old, new) == IF Has(d, old) THEN Put(Pop(d, old), new, d[old]) ELSE d

\* d.copy(): a new dict with the same keys; the values are the same objects,
\* so a nested dict is shared between the copy and d.  The content of the
\* copy is that of d; what a callee does to a shared nested dict is written
\* back to d by the caller of ShallowCopy (SharedAfterCrawler).
ShallowCopy(d) == d

---------------------------------------------------------------------------
(* _prepare_scrape_options, statement by statement.  The function changes  *)
(* its argument in place and returns it: each operator gives the content   *)
(* of that one dict object after the statements it models.                 *)

\* a variant in which userPrompt is applied first, so that extractionPrompt
\* overwrites it
ExtractorStep_ExtractionPromptLast(p) ==
    IF Has(p, "extractorOptions")
    THEN LET extractor == p["extractorOptions"][2]
             p0 == Pop(p, "extractorOptions")
             p1 == IF Has(extractor, "userPrompt")
                   THEN Put(p0, "prompt", extractor["userPrompt"]) ELSE p0
             p2 == IF Has(extractor, "extractionSchema")
                   THEN Put(p1, "schema", extractor["extractionSchema"]) ELSE p1
             p3 == IF Has(extractor, "extractionPrompt")
                   THEN Put(p2, "prompt", extractor["extractionPrompt"]) ELSE p2
         IN  p3
    ELSE p

\* if "extractorOptions" in params: ... (the extractor dict is only read)
ExtractorStep(p) ==
    IF Has(p, "extractorOptions")
    THEN LET extractor == p["extractorOptions"][2]
             p0 == Pop(p, "extractorOptions")
             p1 == IF Has(extractor, "extractionPrompt")
                   THEN Put(p0, "prompt", extractor["extractionPrompt"]) ELSE p0
             p2 == IF Has(extractor, "extractionSchema")
                   THEN Put(p1, "schema", extractor["extractionSchema"]) ELSE p1
             p3 == IF Has(extractor, "userPrompt")
                   THEN Put(p2, "prompt", extractor["userPrompt"]) ELSE p2
         IN  p3
    ELSE p

\* The pops of the seven flags, in the order of the source: flag key, the
\* token appended to formats, the default of the pop.
FlagPops ==
    << <<"includeMarkdown", "markdown", PyBool(TRUE)>>,
       <<"includeHtml", "html", PyBool(FALSE)>>,
       <<"includeRawHtml", "rawHtml", PyBool(FALSE)>>,
       <<"includeExtract", "extract", PyBool(FALSE)>>,
       <<"includeLinks", "links", PyBool(FALSE)>>,
       <<"screenshot", "screenshot", PyBool(FALSE)>>,
       <<"fullPageScreenshot", "screenshot@fullPage", PyBool(FALSE)>> >>

\* a variant that inserts each token at the front of formats
RECURSIVE FormatsAfter_Prepend(_, _)
FormatsAfter_Prepend(p, i) ==
    IF i = 0 THEN << >>
    ELSE LET row == FlagPops[i]
             sofar == FormatsAfter_Prepend(p, i - 1)
         IN  IF Truthy(PopValue(p, row[1], row[3]))
             THEN <<row[2]>> \o sofar ELSE sofar

\* the local list formats after the first i pops
RECURSIVE FormatsAfter(_, _)
FormatsAfter(p, i) ==
    IF i = 0 THEN << >>
    ELSE LET row == FlagPops[i]
             sofar == FormatsAfter(p, i - 1)
         IN  IF Truthy(PopValue(p, row[1], row[3]))
             THEN Append(sofar, row[2]) ELSE sofar

\* params after the first i pops
RECURSIVE PoppedAfter(_, _)
PoppedAfter(p, i) ==
    IF i = 0 THEN p ELSE Pop(PoppedAfter(p, i - 1), FlagPops[i][1])

\* if "onlyIncludeTags" in params: ...; if "removeTags" in params: ...
TagStep(p) ==
    Rename(Rename(p, "onlyIncludeTags", "includeTags"), "removeTags", "excludeTags")

\* a variant without the first branch: formats is set only when no flag
\* selected a token
FormatsStep_OnlyDefault(p, formats) ==
    IF ~Has(p, "formats") /\ formats = << >>
    THEN Put(p, "formats", PyList(<<"markdown">>))
    ELSE p

\* if "formats" not in params and formats: ... elif "formats" not in params: ...
FormatsStep(p, formats) ==
    IF ~Has(p, "formats") /\ formats # << >>
    THEN Put(p, "formats", PyList(formats))
    ELSE IF ~Has(p, "formats")
         THEN Put(p, "formats", PyList(<<"markdown">>))
         ELSE p

_prepare_scrape_options(p) ==
    LET p1 == ExtractorStep(p)
        formats == FormatsAfter(p1, Len(FlagPops))
        p2 == PoppedAfter(p1, Len(FlagPops))
    IN  FormatsStep(TagStep(p2), formats)

---------------------------------------------------------------------------
(* _prepare_crawler_options: changes its argument in place and returns it. *)

\* d after: if old in d: d[new] = d[old] (the old key is kept)
CopyKey(d, old, new) == IF Has(d, old) THEN Put(d, new, d[old]) ELSE d

\* a variant that copies the four values to the new keys without popping
CrawlerRenames_KeepsOld(p) ==
    CopyKey(CopyKey(CopyKey(CopyKey(p,
        "includes", "includePaths"),
        "excludes", "excludePaths"),
        "allowBackwardCrawling", "allowBackwardLinks"),
        "allowExternalContentLinks", "allowExternalLinks")

\* the four top-level renames
CrawlerRenames(p) ==
    Rename(Rename(Rename(Rename(p,
        "includes", "includePaths"),
        "excludes", "excludePaths"),
        "allowBackwardCrawling", "allowBackwardLinks"),
        "allowExternalContentLinks", "allowExternalLinks")

\* if "pageOptions" in params: params["scrapeOptions"] =
\*     self._prepare_scrape_options(params.pop("pageOptions"))
PageOptionsStep(p) ==
    IF Has(p, "pageOptions")
    THEN Put(Pop(p, "pageOptions"), "scrapeOptions",
             PyDict(_prepare_scrape_options(p["pageOptions"][2])))
    ELSE p

_prepare_crawler_options(p) == PageOptionsStep(CrawlerRenames(p))

\* The dict d whose shallow copy was handed to _prepare_crawler_options, after
\* the call: params.pop("pageOptions") returns the very dict object d holds
\* under "pageOptions", and _prepare_scrape_options changes that object in
\* place; d keeps its keys.
SharedAfterCrawler(d) ==
    IF Has(d, "pageOptions")
    THEN [d EXCEPT !["pageOptions"] =
              PyDict(_prepare_scrape_options(d["pageOptions"][2]))]
    ELSE d

---------------------------------------------------------------------------
(* lazy_load: the projection of the response records to Documents.         *)

\* getattr(doc, name, default)
GetAttr(doc, name, default) == IF name \in DOMAIN doc THEN doc[name] ELSE default

\* str(v), for the values an extract reply takes in this model; the text of
\* a non-empty dict is not spelled out (it is never empty).
PyStrOf(v) ==
    CASE v[1] = "none" -> "None"
      [] v[1] = "bool" -> IF v[2] THEN "True" ELSE "False"
      [] v[1] = "str"  -> v[2]
      [] v[1] = "list" -> IF v[2] = << >> THEN "[]" ELSE "[...]"
      [] v[1] = "dict" -> IF DOMAIN v[2] = {} THEN "{}" ELSE "{...}"

\* a variant that prefers html to markdown
PageContent_HtmlFirst(m, doc) ==
    IF m = "map" \/ m = "extract"
    THEN doc
    ELSE PyOr(PyOr(PyOr(GetAttr(doc, "html", PyNone),
                        GetAttr(doc, "markdown", PyNone)),
                   GetAttr(doc, "rawHtml", PyNone)),
              PyStr(""))

\* page_content of one record, lines 210-220
PageContent(m, doc) ==
    IF m = "map" \/ m = "extract"
    THEN doc
    ELSE PyOr(PyOr(PyOr(GetAttr(doc, "markdown", PyNone),
                        GetAttr(doc, "html", PyNone)),
                   GetAttr(doc, "rawHtml", PyNone)),
              PyStr(""))

\* metadata of one record, lines 212 and 221
Metadata(m, doc) ==
    IF m = "map" \/ m = "extract"
    THEN PyDict(EmptyDict)
    ELSE PyOr(GetAttr(doc, "metadata", PyDict(EmptyDict)), PyDict(EmptyDict))

\* a variant without the skip: every record yields a Document
Yielded_NoSkip(m, recs, i) ==
    [j \in 1..i |-> [page_content |-> PageContent(m, recs[j]),
                     metadata |-> Metadata(m, recs[j])]]

\* the Documents yielded by the for loop over the first i records
RECURSIVE Yielded(_, _, _)
Yielded(m, recs, i) ==
    IF i = 0 THEN << >>
    ELSE LET sofar == Yielded(m, recs, i - 1)
             page_content == PageContent(m, recs[i])
         IN  IF ~Truthy(page_content)
             THEN sofar
             ELSE Append(sofar, [page_content |-> page_content,
                                 metadata |-> Metadata(m, recs[i])])

---------------------------------------------------------------------------
(* The inputs: the dicts a caller passes as params and the replies of the  *)
(* Firecrawl client.                                                       *)

Modes == {"crawl", "scrape", "search", "map", "extract"}

\* all dicts with key set D whose value under k is drawn from V[k]
RECURSIVE DictsOver(_, _)
DictsOver(D, V) ==
    IF D = {} THEN {EmptyDict}
    ELSE LET k == CHOOSE x \in D : TRUE
         IN  {Put(d, k, v) : d \in DictsOver(D \ {k}, V), v \in V[k]}

\* the subsets of S with at most n elements
RECURSIVE KeySetsUpTo(_, _)
KeySetsUpTo(S, n) ==
    IF n = 0 THEN {{}}
    ELSE LET less == KeySetsUpTo(S, n - 1)
         IN  less \cup {D \cup {k} : D \in less, k \in S}

DictsUpTo(V, n) == UNION {DictsOver(D, V) : D \in KeySetsUpTo(DOMAIN V, n)}
AllDicts(V) == UNION {DictsOver(D, V) : D \in SUBSET DOMAIN V}

FlagKeys == {FlagPops[i][1] : i \in 1..Len(FlagPops)}
CrawlLegacyKeys ==
    {"includes", "excludes", "allowBackwardCrawling", "allowExternalContentLinks"}
TagLegacyKeys == {"onlyIncludeTags", "removeTags"}
LegacyKeys == CrawlLegacyKeys \cup TagLegacyKeys

ExtractorValues ==
    [k \in {"extractionPrompt", "extractionSchema", "userPrompt", "mode"} |->
        CASE k = "extractionPrompt" -> {PyStr("Extract the title")}
          [] k = "extractionSchema" -> {PyDict([x \in {"type"} |-> PyStr("object")])}
          [] k = "userPrompt" -> {PyStr("Summarise the page")}
          [] k = "mode" -> {PyStr("llm-extraction")}]

LegacyValues ==
    [k \in LegacyKeys |->
        CASE k = "includes" -> {PyList(<<"blog/*">>)}
          [] k = "excludes" -> {PyList(<<"admin/*">>)}
          [] k = "allowBackwardCrawling" -> {PyBool(TRUE)}
          [] k = "allowExternalContentLinks" -> {PyBool(FALSE)}
          [] k = "onlyIncludeTags" -> {PyList(<<"article">>)}
          [] k = "removeTags" -> {PyList(<<"nav">>)}]

FlagValues == [k \in FlagKeys \cup {"formats"} |->
    IF k = "formats" THEN {PyList(<<"links">>)} ELSE {PyBool(TRUE), PyBool(FALSE)}]

ExtractionValues ==
    [k \in {"extractorOptions", "prompt", "schema"} |->
        CASE k = "extractorOptions" -> {PyDict(e) : e \in AllDicts(ExtractorValues)}
          [] k = "prompt" -> {PyStr("An earlier prompt")}
          [] k = "schema" -> {PyStr("An earlier schema")}]

\* the keys of a scrape-style options dict and their values
PageValues ==
    [k \in FlagKeys \cup {"formats"} \cup TagLegacyKeys
            \cup {"extractorOptions", "prompt", "schema"} |->
        IF k \in DOMAIN FlagValues THEN FlagValues[k]
        ELSE IF k \in TagLegacyKeys THEN LegacyValues[k]
        ELSE ExtractionValues[k]]

PageDicts == DictsUpTo(PageValues, MaxPageKeys)

TopValues ==
    [k \in DOMAIN PageValues \cup CrawlLegacyKeys \cup {"query"} |->
        IF k \in DOMAIN PageValues THEN PageValues[k]
        ELSE IF k \in CrawlLegacyKeys THEN LegacyValues[k]
        ELSE {PyStr("firecrawl pricing")}]

\* the keys _prepare_crawler_options looks at
CrawlValues ==
    [k \in CrawlLegacyKeys \cup {"pageOptions"} |->
        IF k \in CrawlLegacyKeys THEN LegacyValues[k]
        ELSE {PyDict(d) : d \in PageDicts}]

\* params: every dict of at most MaxKeys keys (flat, or of crawler options
\* with a nested pageOptions), every assignment of the flags (with and
\* without formats), every set of legacy keys, every extractorOptions.
Params ==
    DictsUpTo(TopValues, MaxKeys) \cup DictsUpTo(CrawlValues, MaxKeys)
        \cup AllDicts(FlagValues) \cup AllDicts(LegacyValues)
        \cup AllDicts(ExtractionValues)

FewParams == {EmptyDict}

\* a response record exposes any of markdown, html, rawHtml, metadata
RecordValues ==
    [k \in {"markdown", "html", "rawHtml", "metadata"} |->
        CASE k = "markdown" -> {PyNone, PyStr(""), PyStr("# Title")}
          [] k = "html" -> {PyNone, PyStr(""), PyStr("<h1>Title</h1>")}
          [] k = "rawHtml" -> {PyNone, PyStr(""), PyStr("<html><h1>Title</h1></html>")}
          [] k = "metadata" -> {PyNone, PyDict(EmptyDict),
                                PyDict([x \in {"title"} |-> PyStr("Title")])}]

Records == AllDicts(RecordValues)

\* the records of a list reply: a field is absent, empty or a text, metadata
\* is absent, None or a non-empty dict
ListedRecords ==
    {r \in Records :
        /\ \A k \in DOMAIN r \ {"metadata"} : r[k] # PyNone
        /\ Has(r, "metadata") => r["metadata"] # PyDict(EmptyDict)}

\* the sequences over S of length at most n
SeqsUpTo(S, n) == UNION {[1..i -> S] : i \in 0..n}

Links == {PyStr(""), PyStr("https://firecrawl.dev"), PyStr("https://firecrawl.dev/blog")}

\* the replies of the client, by mode (section 6 of spec.md: scrape returns a
\* record, crawl a dict with the records under data, map strings, extract a
\* structured result, search records)
Replies(m) ==
    CASE m = "scrape" -> Records
      [] m = "crawl" -> {EmptyDict} \cup
            {[k \in {"data"} |-> r] : r \in SeqsUpTo(ListedRecords, MaxRecs)}
      [] m = "map" -> SeqsUpTo(Links, MaxRecs)
      [] m = "extract" -> {PyNone, PyStr(""), PyStr("Title"), PyDict(EmptyDict),
                           PyDict([x \in {"title"} |-> PyStr("Title")])}
      [] m = "search" -> SeqsUpTo(ListedRecords, MaxRecs)

ARecord == [k \in {"markdown", "metadata"} |->
    IF k = "markdown" THEN PyStr("# Title")
    ELSE PyDict([x \in {"title"} |-> PyStr("Title")])]

FewReplies(m) ==
    CASE m = "scrape" -> {ARecord}
      [] m = "crawl" -> {[k \in {"data"} |-> <<ARecord>>]}
      [] m = "map" -> {<<PyStr("https://firecrawl.dev")>>}
      [] m = "extract" -> {PyDict([x \in {"title"} |-> PyStr("Title")])}
      [] m = "search" -> {<<ARecord>>}

---------------------------------------------------------------------------
(* FireCrawlLoader.__init__ and lazy_load.                                 *)

Url == "https://firecrawl.dev"

\* the wrapper before any run
WrapperIdle ==
    /\ wrapper = [model_name |-> "dall-e-2", quality |-> "standard", n |-> 1,
                  separator |-> ","]
    /\ generated = << >>
    /\ result = ""

\* __init__(url, mode=m, params=p): url is non-empty and m is one of Modes,
\* or the constructor raises; self.params = params or {}
Construct(u, m, p) ==
    /\ u # "" /\ m \in Modes
    /\ url = u
    /\ mode = m
    /\ params = p
    /\ given = p
    /\ prepared = << >>
    /\ called = << >>
    /\ firecrawl_docs = << >>
    /\ docs = << >>
    /\ raised = "none"
    /\ loaded = FALSE

Init ==
    /\ \E m \in Modes :
         \/ \E p \in Params : Construct(Url, m, p) /\ remote \in FewReplies(m)
         \/ \E p \in FewParams : Construct(Url, m, p) /\ remote \in Replies(m)
    /\ WrapperIdle

\* f(**explicit, **star) raises TypeError (got multiple values for keyword
\* argument) when a key of star is also given explicitly
KeywordClash(explicit, star) == DOMAIN explicit \cap DOMAIN star # {}

\* the keyword arguments f(**explicit, **star) receives
Kwargs(explicit, star) ==
    [k \in DOMAIN explicit \cup DOMAIN star |->
        IF k \in DOMAIN explicit THEN explicit[k] ELSE star[k]]

\* the for loop, consumed to its end
Consume(fdocs) ==
    /\ firecrawl_docs' = fdocs
    /\ docs' = Yielded(mode, fdocs, Len(fdocs))
    /\ raised' = "none"
    /\ loaded' = TRUE

\* mode == "scrape", lines 177-182
LoadScrape ==
    /\ mode = "scrape"
    /\ LET arg == ShallowCopy(params)
           opts == _prepare_scrape_options(arg)
       IN  /\ prepared' = << [fn |-> "_prepare_scrape_options", arg |-> arg,
                              ret |-> opts] >>
           /\ called' = << [op |-> "scrape_url", kwargs |-> opts] >>
    /\ Consume(<<remote>>)
    /\ UNCHANGED <<url, mode, params, given, remote, wrapperVars>>

\* mode == "crawl", lines 183-189
LoadCrawl ==
    /\ mode = "crawl"
    /\ url # ""
    /\ LET arg == ShallowCopy(params)
           opts == _prepare_crawler_options(arg)
           nested == IF Has(arg, "pageOptions")
                     THEN << [fn |-> "_prepare_scrape_options",
                              arg |-> arg["pageOptions"][2],
                              ret |-> opts["scrapeOptions"][2]] >>
                     ELSE << >>
       IN  /\ prepared' = nested \o << [fn |-> "_prepare_crawler_options",
                                         arg |-> arg, ret |-> opts] >>
           /\ called' = << [op |-> "crawl_url", kwargs |-> opts] >>
    /\ params' = SharedAfterCrawler(params)
    /\ Consume(IF Has(remote, "data") THEN remote["data"] ELSE << >>)
    /\ UNCHANGED <<url, mode, given, remote, wrapperVars>>

\* mode == "map", lines 190-193
LoadMap ==
    /\ mode = "map"
    /\ url # ""
    /\ prepared' = << >>
    /\ called' = << [op |-> "map_url", kwargs |-> Kwargs(EmptyDict, params)] >>
    /\ Consume(remote)
    /\ UNCHANGED <<url, mode, params, given, remote, wrapperVars>>

\* mode == "extract", lines 194-197
LoadExtract ==
    /\ mode = "extract"
    /\ url # ""
    /\ prepared' = << >>
    /\ called' = << [op |-> "extract", kwargs |-> Kwargs(EmptyDict, params)] >>
    /\ Consume(<<PyStr(PyStrOf(remote))>>)
    /\ UNCHANGED <<url, mode, params, given, remote, wrapperVars>>

\* mode == "search", lines 198-202: query is passed by keyword and params is
\* unpacked into the same call
LoadSearch ==
    /\ mode = "search"
    /\ prepared' = << >>
    /\ LET explicit == [k \in {"query"} |-> PopValue(params, "query", PyNone)]
       IN  IF KeywordClash(explicit, params)
           THEN /\ called' = << >>
                /\ firecrawl_docs' = << >>
                /\ docs' = << >>
                /\ raised' = "TypeError"
                /\ loaded' = TRUE
           ELSE /\ called' = << [op |-> "search",
                                  kwargs |-> Kwargs(explicit, params)] >>
                /\ Consume(remote)
    /\ UNCHANGED <<url, mode, params, given, remote, wrapperVars>>

Next == LoadScrape \/ LoadCrawl \/ LoadMap \/ LoadExtract \/ LoadSearch

Spec == Init /\ [][Next]_vars

---------------------------------------------------------------------------
(* DallEAPIWrapper.run, modelled from sections 4.3 and 6 of spec.md; the   *)
(* client of the tests (FakeImages) is modelled from the test file.  The   *)
(* urls of a reply are non-empty strings.                                  *)

PyInt(i) == <<"int", i>>

Models == {"dall-e-2", "dall-e-3", "dall-e-3-hd", "gpt-image-1"}
Qualities == {"standard", "hd"}
Separators == {",", "|"}
NoImage == "No image was generated"

\* a variant that passes quality for every model
GenerateKwargs_AlwaysQuality(w, prompt) ==
    [k \in {"prompt", "n", "size", "model", "quality"} |->
        CASE k = "prompt" -> PyStr(prompt)
          [] k = "n" -> PyInt(w.n)
          [] k = "size" -> PyStr("1024x1024")
          [] k = "model" -> PyStr(w.model_name)
          [] k = "quality" -> PyStr(w.quality)]

\* the arguments run passes to images.generate
GenerateKwargs(w, prompt) ==
    LET always == [k \in {"prompt", "n", "size", "model"} |->
                      CASE k = "prompt" -> PyStr(prompt)
                        [] k = "n" -> PyInt(w.n)
                        [] k = "size" -> PyStr("1024x1024")
                        [] k = "model" -> PyStr(w.model_name)]
    IN  IF w.model_name = "dall-e-3"
        THEN Put(always, "quality", PyStr(w.quality))
        ELSE always

\* separator.join(urls), urls not empty
RECURSIVE Join(_, _)
Join(sep, urls) ==
    IF Len(urls) = 1 THEN urls[1]
    ELSE urls[1] \o sep \o Join(sep, Tail(urls))

\* a variant that joins with a comma whatever the configured separator
RunResult_CommaOnly(w, urls) == IF urls = << >> THEN NoImage ELSE Join(",", urls)

\* what run returns for the urls of the reply
RunResult(w, urls) == IF urls = << >> THEN NoImage ELSE Join(w.separator, urls)

Digits == <<"0", "1", "2", "3", "4", "5", "6", "7", "8", "9">>

\* FakeImages.generate(**kwargs): n urls image_0.png .. when n > 1, else one
FakeImagesGenerate(kwargs) ==
    IF Has(kwargs, "n") /\ kwargs["n"][2] > 1
    THEN [i \in 1..kwargs["n"][2] |->
             "https://example.com/image_" \o Digits[i] \o ".png"]
    ELSE <<"https://example.com/image.png">>

ImageUrls == {"https://example.com/a.png", "https://example.com/b.png"}

\* run(prompt), the reply of the one generate call being urls
Run(prompt, urls) ==
    /\ generated' = << [kwargs |-> GenerateKwargs(wrapper, prompt), urls |-> urls] >>
    /\ result' = RunResult(wrapper, urls)
    /\ UNCHANGED <<wrapper, loaderVars>>

\* run against the client of the tests
RunFake ==
    Run("two cats playing",
        FakeImagesGenerate(GenerateKwargs(wrapper, "two cats playing")))

\* run against a client patched to return a given reply (return_value=...)
RunMocked ==
    \E urls \in SeqsUpTo(ImageUrls, MaxUrls) : Run("an impossible image", urls)

WrapperInit ==
    /\ wrapper \in [model_name : Models, quality : Qualities, n : 1..MaxN,
                     separator : Separators]
    /\ generated = << >>
    /\ result = ""
    /\ Construct(Url, "crawl", EmptyDict)
    /\ remote = EmptyDict

WrapperNext == RunFake \/ RunMocked

WrapperSpec == WrapperInit /\ [][WrapperNext]_vars

---------------------------------------------------------------------------
(* The claims.                                                             *)

\* the keyword arguments of the one remote call of the last lazy_load
Sent == called[1].kwargs

\* the normalizer invocations of the last lazy_load with the given name
Invocations(fn) == {prepared[i] : i \in {j \in 1..Len(prepared) : prepared[j].fn = fn}}

\* the rename table of section 4.1 of spec.md
CanonicalKey ==
    [k \in LegacyKeys |->
        CASE k = "includes" -> "includePaths"
          [] k = "excludes" -> "excludePaths"
          [] k = "allowBackwardCrawling" -> "allowBackwardLinks"
          [] k = "allowExternalContentLinks" -> "allowExternalLinks"
          [] k = "onlyIncludeTags" -> "includeTags"
          [] k = "removeTags" -> "excludeTags"]

\* C1: after any sequence of consumed lazy_load invocations, in any mode, the
\* loader's params, nested dicts included, equals what the caller supplied.
C1_ParamsNeverMutated == params = given

\* C2 as stated: for params whose keys are all legacy keys, the options sent
\* in crawl mode and in scrape mode hold no legacy key and hold every
\* corresponding canonical key with the identical value.
C2_AllLegacyKeysRenamed ==
    (loaded /\ mode \in {"crawl", "scrape"} /\ DOMAIN given \subseteq LegacyKeys) =>
        /\ DOMAIN Sent \cap LegacyKeys = {}
        /\ \A k \in DOMAIN given :
              Has(Sent, CanonicalKey[k]) /\ Sent[CanonicalKey[k]] = given[k]

\* the legacy keys the normalizer entered in mode m renames
RenamedIn(m) == IF m = "crawl" THEN CrawlLegacyKeys ELSE TagLegacyKeys

\* C2 amended: for params whose keys are all legacy keys, the options sent in
\* crawl mode hold none of the four crawler legacy keys and hold their
\* canonical keys with the identical values, the options sent in scrape mode
\* hold none of the two tag legacy keys and hold their canonical keys with
\* the identical values; a legacy key of the other group is sent unchanged
\* under its legacy name, without its canonical key.
C2_LegacyKeysRenamedPerMode ==
    (loaded /\ mode \in {"crawl", "scrape"} /\ DOMAIN given \subseteq LegacyKeys) =>
        /\ DOMAIN Sent \cap RenamedIn(mode) = {}
        /\ \A k \in DOMAIN given \cap RenamedIn(mode) :
              Has(Sent, CanonicalKey[k]) /\ Sent[CanonicalKey[k]] = given[k]
        /\ \A k \in DOMAIN given \ RenamedIn(mode) :
              /\ Has(Sent, k) /\ Sent[k] = given[k]
              /\ ~Has(Sent, CanonicalKey[k])

C2_Witness ==
    /\ loaded /\ mode = "crawl" /\ DOMAIN given = LegacyKeys
    /\ Has(Sent, "includePaths") /\ Has(Sent, "onlyIncludeTags")

\* C3 as stated: with params empty the options sent are exactly
\* {"formats": ["markdown"]}, in scrape mode and in crawl mode.
C3_EmptyGivesMarkdownInBothModes ==
    (loaded /\ mode \in {"crawl", "scrape"} /\ given = EmptyDict) =>
        Sent = [k \in {"formats"} |-> PyList(<<"markdown">>)]

\* C3 amended: with params empty the options sent in scrape mode are exactly
\* {"formats": ["markdown"]}; the options sent in crawl mode are the empty
\* dict (_prepare_crawler_options adds no formats key).
C3_EmptyGivesMarkdownInScrapeMode ==
    (loaded /\ given = EmptyDict) =>
        /\ mode = "scrape" => Sent = [k \in {"formats"} |-> PyList(<<"markdown">>)]
        /\ mode = "crawl" => Sent = EmptyDict

C3_Witness ==
    /\ loaded /\ mode = "scrape" /\ given = EmptyDict
    /\ prepared[1].arg = EmptyDict /\ Has(Sent, "formats")

\* the tokens of the claim in their fixed order, each with its flag
TokenOrder ==
    <<"markdown", "html", "rawHtml", "extract", "links", "screenshot",
      "screenshot@fullPage">>
FlagOfToken ==
    [t \in {TokenOrder[i] : i \in 1..Len(TokenOrder)} |->
        CASE t = "markdown" -> "includeMarkdown"
          [] t = "html" -> "includeHtml"
          [] t = "rawHtml" -> "includeRawHtml"
          [] t = "extract" -> "includeExtract"
          [] t = "links" -> "includeLinks"
          [] t = "screenshot" -> "screenshot"
          [] t = "screenshot@fullPage" -> "fullPageScreenshot"]

\* the tokens whose flag is true in arg: includeMarkdown counts as true when
\* absent, every other flag as false
Selected(arg) ==
    {t \in DOMAIN FlagOfToken :
        IF Has(arg, FlagOfToken[t]) THEN arg[FlagOfToken[t]] = PyBool(TRUE)
        ELSE t = "markdown"}

PositionOf(t) == CHOOSE i \in 1..Len(TokenOrder) : TokenOrder[i] = t

\* f lists exactly the tokens of S, each once, in the fixed order
ListsInOrder(f, S) ==
    /\ {f[i] : i \in 1..Len(f)} = S
    /\ \A i, j \in 1..Len(f) : i < j => PositionOf(f[i]) < PositionOf(f[j])

\* C4: _prepare_scrape_options leaves none of the seven flag keys and always
\* a formats key: the caller's formats when given, else the tokens whose
\* flag is true in the fixed order, else ["markdown"]; in particular
\* {includeHtml: true, includeMarkdown: false} gives ["html"].
C4_FormatsDerivedFromFlags ==
    \A c \in Invocations("_prepare_scrape_options") :
        /\ DOMAIN c.ret \cap FlagKeys = {}
        /\ Has(c.ret, "formats")
        /\ IF Has(c.arg, "formats")
           THEN c.ret["formats"] = c.arg["formats"]
           ELSE /\ c.ret["formats"][1] = "list"
                /\ IF Selected(c.arg) # {}
                   THEN ListsInOrder(c.ret["formats"][2], Selected(c.arg))
                   ELSE c.ret["formats"][2] = <<"markdown">>
        /\ c.arg = [k \in {"includeHtml", "includeMarkdown"} |-> PyBool(k = "includeHtml")]
              => c.ret["formats"] = PyList(<<"html">>)

C4_Witness ==
    /\ loaded /\ mode = "scrape"
    /\ \E c \in Invocations("_prepare_scrape_options") :
          /\ c.arg = [k \in {"includeHtml", "includeMarkdown"} |->
                          PyBool(k = "includeHtml")]
          /\ c.ret["formats"] = PyList(<<"html">>)

ExtractionKeys == {"extractionPrompt", "extractionSchema", "userPrompt"}

\* C5: for an input with extractorOptions, the output of
\* _prepare_scrape_options has no extractorOptions; prompt is the userPrompt
\* when present, else the extractionPrompt when present; schema is the
\* extractionSchema when present; with none of the three keys no prompt or
\* schema key is added.
C5_ExtractorOptionsFlattened ==
    \A c \in Invocations("_prepare_scrape_options") :
        Has(c.arg, "extractorOptions") =>
            LET e == c.arg["extractorOptions"][2] IN
            /\ ~Has(c.ret, "extractorOptions")
            /\ Has(e, "userPrompt") =>
                  Has(c.ret, "prompt") /\ c.ret["prompt"] = e["userPrompt"]
            /\ (Has(e, "extractionPrompt") /\ ~Has(e, "userPrompt")) =>
                  Has(c.ret, "prompt") /\ c.ret["prompt"] = e["extractionPrompt"]
            /\ Has(e, "extractionSchema") =>
                  Has(c.ret, "schema") /\ c.ret["schema"] = e["extractionSchema"]
            /\ DOMAIN e \cap ExtractionKeys = {} =>
                  \A k \in {"prompt", "schema"} :
                      /\ Has(c.ret, k) <=> Has(c.arg, k)
                      /\ Has(c.arg, k) => c.ret[k] = c.arg[k]

C5_Witness ==
    /\ loaded
    /\ \E c \in Invocations("_prepare_scrape_options") :
          /\ Has(c.arg, "extractorOptions")
          /\ {"extractionPrompt", "userPrompt"} \subseteq DOMAIN c.arg["extractorOptions"][2]
          /\ c.ret["prompt"] = PyStr("Summarise the page")

ContentFields == <<"markdown", "html", "rawHtml">>

\* record r has a non-empty text under field f
NonEmptyField(r, f) == Has(r, f) /\ r[f][1] = "str" /\ r[f][2] # ""

HasContent(r) == \E i \in 1..Len(ContentFields) : NonEmptyField(r, ContentFields[i])

\* the first non-empty of markdown, then html, then rawHtml
FirstContent(r) ==
    r[ContentFields[CHOOSE i \in 1..Len(ContentFields) :
          /\ NonEmptyField(r, ContentFields[i])
          /\ \A j \in 1..(i - 1) : ~NonEmptyField(r, ContentFields[j])]]

\* the record's metadata field, or the empty map when absent or null
Attributes(r) ==
    IF ~Has(r, "metadata") \/ r["metadata"] = PyNone
    THEN PyDict(EmptyDict) ELSE r["metadata"]

ContentRecords == SelectSeq(firecrawl_docs, HasContent)

\* C6: in scrape, crawl and search mode the documents yielded are the
\* order-preserving image of the records with a non-empty markdown, html or
\* rawHtml: content the first non-empty of the three, attributes the
\* record's metadata or the empty map; other records yield nothing.
C6_DocumentsAreImageOfContentRecords ==
    (loaded /\ mode \in {"scrape", "crawl", "search"} /\ raised = "none") =>
        docs = [i \in 1..Len(ContentRecords) |->
                   [page_content |-> FirstContent(ContentRecords[i]),
                    metadata |-> Attributes(ContentRecords[i])]]

C6_Witness ==
    /\ loaded /\ mode = "crawl" /\ Len(firecrawl_docs) = 2
    /\ ~HasContent(firecrawl_docs[1])
    /\ NonEmptyField(firecrawl_docs[2], "html")
    /\ Has(firecrawl_docs[2], "markdown")
    /\ ~Has(firecrawl_docs[2], "metadata")
    /\ Len(docs) = 1
    /\ docs[1].page_content = PyStr("<h1>Title</h1>")

\* the non-empty strings among the records of map or extract mode
NonEmptyStrings == SelectSeq(firecrawl_docs, LAMBDA r : r[2] # "")

\* C7: every document yielded has non-empty content, there are never more
\* documents than records, a skipped record raises nothing and leaves no
\* placeholder; in map and extract mode the documents are the non-empty
\* string records as they are, with empty attributes.
C7_NoEmptyDocuments ==
    loaded =>
        /\ \A i \in 1..Len(docs) :
              docs[i].page_content[1] = "str" /\ docs[i].page_content[2] # ""
        /\ Len(docs) <= Len(firecrawl_docs)
        /\ called # << >> => raised = "none"
        /\ (mode \in {"scrape", "crawl", "search"} /\ called # << >>) =>
              Len(docs) = Len(ContentRecords)
        /\ mode \in {"map", "extract"} =>
              docs = [i \in 1..Len(NonEmptyStrings) |->
                         [page_content |-> NonEmptyStrings[i],
                          metadata |-> PyDict(EmptyDict)]]

C7_Witness ==
    /\ loaded /\ mode = "map"
    /\ firecrawl_docs = <<PyStr(""), PyStr("https://firecrawl.dev")>>
    /\ docs = <<[page_content |-> PyStr("https://firecrawl.dev"),
                 metadata |-> PyDict(EmptyDict)]>>

\* C10: in search mode with a query key in params, lazy_load raises nothing
\* before the call and issues exactly one search call whose query argument
\* is the value of that key, and yields the documents of its records.
C10_SearchCallCarriesQuery ==
    (loaded /\ mode = "search" /\ Has(params, "query")) =>
        /\ raised = "none"
        /\ Len(called) = 1
        /\ called[1].op = "search"
        /\ called[1].kwargs["query"] = params["query"]
        /\ Len(docs) = Len(ContentRecords)

\* C8: run calls generate exactly once, with model the configured model, and
\* with a quality parameter if and only if the model is exactly "dall-e-3",
\* then carrying the configured quality; never for "dall-e-2".
C8_QualityOnlyForDallE3 ==
    generated # << >> =>
        /\ Len(generated) = 1
        /\ generated[1].kwargs["model"] = PyStr(wrapper.model_name)
        /\ Has(generated[1].kwargs, "quality") <=> wrapper.model_name = "dall-e-3"
        /\ Has(generated[1].kwargs, "quality") =>
              generated[1].kwargs["quality"] = PyStr(wrapper.quality)
        /\ wrapper.model_name = "dall-e-2" => ~Has(generated[1].kwargs, "quality")

C8_Witness ==
    /\ generated # << >>
    /\ wrapper.model_name = "dall-e-2" /\ wrapper.quality = "hd"
    /\ ~Has(generated[1].kwargs, "quality")

\* the first i urls, each followed by the separator except the last
RECURSIVE Separated(_, _, _)
Separated(urls, sep, i) ==
    IF i = 1 THEN urls[1] ELSE Separated(urls, sep, i - 1) \o sep \o urls[i]

\* C9: run returns the urls of the reply joined by the configured separator
\* in the order of the reply, one url without separator, and returns
\* "No image was generated" exactly when the reply holds no url.
C9_UrlsJoinedInOrder ==
    generated # << >> =>
        LET urls == generated[1].urls IN
        /\ Len(urls) = 1 => result = urls[1]
        /\ Len(urls) > 0 => result = Separated(urls, wrapper.separator, Len(urls))
        /\ result = "No image was generated" <=> Len(urls) = 0

C9_Witness ==
    /\ generated # << >>
    /\ wrapper.separator = "|" /\ wrapper.n = 2
    /\ result = "https://example.com/image_0.png|https://example.com/image_1.png"

====
